---- MODULE Spec2Model ----
\* MoMo-Adam (optax/contrib/momo_adam.py): the optimizer state, init_fn and
\* update_fn, modelled as a state machine driven by a training loop.
\*
\* Numbers.  The code computes in floating point.  The model computes with
\* finite values <<n, d, e>> standing for (n / d) * 2^e, with n and d odd and
\* coprime (zero is <<0, 1, 0>>), so that +, -, * and / are exact; sqrt is
\* rounded down to a multiple of 1/SqrtScale.  A denominator of 0 marks the
\* non-finite results of a division by zero: <<1,0,0>> is +inf, <<-1,0,0>> is
\* -inf and <<0,0,0>> is NaN.  Any operation on a non-finite operand gives NaN.
EXTENDS Integers, Sequences, FiniteSets, TLC

\* ---------------------------------------------------------------- bounds
MaxDim == 2
MaxCount == 2
LbStart == 1
LbSteps == 27
SqrtScale == 16

\* ------------------------------------------------------------ arithmetic
Abs(i) == IF i < 0 THEN -i ELSE i
Sgn(i) == IF i < 0 THEN -1 ELSE IF i = 0 THEN 0 ELSE 1
IMin(i, j) == IF i <= j THEN i ELSE j

RECURSIVE Gcd(_, _)
Gcd(a, b) == IF b = 0 THEN a ELSE Gcd(b, a % b)

RECURSIVE TwoAdic(_)
TwoAdic(i) == IF i % 2 = 0 THEN 1 + TwoAdic(i \div 2) ELSE 0

Zero == <<0, 1, 0>>
One == <<1, 1, 0>>
NaN == <<0, 0, 0>>
PosInf == <<1, 0, 0>>
NegInf == <<-1, 0, 0>>

Finite(x) == x[2] > 0
IsZero(x) == Finite(x) /\ x[1] = 0
IsPos(x) == Finite(x) /\ x[1] > 0
IsNeg(x) == Finite(x) /\ x[1] < 0

\* the canonical value of (n / d) * 2^e, for d > 0
Mk(n, d, e) ==
  IF n = 0 THEN Zero
  ELSE LET tn == TwoAdic(n)
           td == TwoAdic(d)
           n1 == n \div (2 ^ tn)
           d1 == d \div (2 ^ td)
           g == Gcd(Abs(n1), d1)
       IN <<n1 \div g, d1 \div g, e + tn - td>>

Rat(n, d) == Mk(n, d, 0)
Int2Num(i) == Mk(i, 1, 0)

Neg(x) == IF Finite(x) THEN <<-x[1], x[2], x[3]>> ELSE NaN

Mul(a, b) ==
  IF ~Finite(a) \/ ~Finite(b) THEN NaN
  ELSE IF a[1] = 0 \/ b[1] = 0 THEN Zero
  ELSE LET g1 == Gcd(Abs(a[1]), b[2])
           g2 == Gcd(Abs(b[1]), a[2])
       IN <<(a[1] \div g1) * (b[1] \div g2), (a[2] \div g2) * (b[2] \div g1), a[3] + b[3]>>

\* IEEE division: x/0 is +inf or -inf, 0/0 is NaN
Div(a, b) ==
  IF ~Finite(a) \/ ~Finite(b) THEN NaN
  ELSE IF b[1] = 0 THEN (IF a[1] = 0 THEN NaN ELSE IF a[1] > 0 THEN PosInf ELSE NegInf)
  ELSE Mul(a, <<Sgn(b[1]) * b[2], Abs(b[1]), -b[3]>>)

Add(a, b) ==
  IF ~Finite(a) \/ ~Finite(b) THEN NaN
  ELSE IF a[1] = 0 THEN b
  ELSE IF b[1] = 0 THEN a
  ELSE LET e == IMin(a[3], b[3])
           g == Gcd(a[2], b[2])
       IN Mk(a[1] * (2 ^ (a[3] - e)) * (b[2] \div g) + b[1] * (2 ^ (b[3] - e)) * (a[2] \div g),
             (a[2] \div g) * b[2], e)

Sub(a, b) == Add(a, Neg(b))

\* floor(log2(i)) for an integer i >= 1
RECURSIVE ILog2(_)
ILog2(i) == IF i < 2 THEN 0 ELSE 1 + ILog2(i \div 2)

\* floor(log2(n / d)) for integers n, d >= 1
Log2Floor(n, d) ==
  IF n >= d THEN ILog2(n \div d)
  ELSE IF d % n = 0 THEN -ILog2(d \div n) - (IF 2 ^ ILog2(d \div n) = d \div n THEN 0 ELSE 1)
  ELSE -(1 + ILog2(d \div n))

\* p1/q1 <= p2/q2 for p >= 0, q >= 1, by comparing the continued fractions, so
\* that no cross product is formed
RECURSIVE FracLeq(_, _, _, _)
FracLeq(p1, q1, p2, q2) ==
  IF p1 \div q1 # p2 \div q2 THEN p1 \div q1 < p2 \div q2
  ELSE IF p1 % q1 = 0 THEN TRUE
  ELSE IF p2 % q2 = 0 THEN FALSE
  ELSE FracLeq(q2, p2 % q2, q1, p1 % q1)

\* a <= b for a, b > 0: first by the binary exponents of the values, then by
\* their mantissas in [1, 2)
LeqPos(a, b) ==
  LET fa == Log2Floor(a[1], a[2])
      fb == Log2Floor(b[1], b[2])
  IN IF a[3] + fa # b[3] + fb THEN a[3] + fa < b[3] + fb
     ELSE FracLeq(IF fa >= 0 THEN a[1] ELSE a[1] * (2 ^ (-fa)),
                  IF fa >= 0 THEN a[2] * (2 ^ fa) ELSE a[2],
                  IF fb >= 0 THEN b[1] ELSE b[1] * (2 ^ (-fb)),
                  IF fb >= 0 THEN b[2] * (2 ^ fb) ELSE b[2])

\* a <= b; false when either side is NaN
Leq(a, b) ==
  LET sa == Sgn(a[1])
      sb == Sgn(b[1])
  IN IF a = NaN \/ b = NaN THEN FALSE
     ELSE IF ~Finite(a) \/ ~Finite(b) THEN a = b \/ a = NegInf \/ b = PosInf
     ELSE IF sa # sb THEN sa < sb
     ELSE IF sa = 0 THEN TRUE
     ELSE IF sa > 0 THEN LeqPos(a, b)
     ELSE LeqPos(Neg(b), Neg(a))

Lt(a, b) == Leq(a, b) /\ a # b

\* jnp.maximum / jnp.minimum: NaN propagates
Maximum(a, b) ==
  IF a = NaN \/ b = NaN THEN NaN
  ELSE IF a = PosInf \/ b = PosInf THEN PosInf
  ELSE IF a = NegInf THEN b
  ELSE IF b = NegInf THEN a
  ELSE IF Leq(a, b) THEN b ELSE a

Minimum(a, b) ==
  IF a = NaN \/ b = NaN THEN NaN
  ELSE IF a = NegInf \/ b = NegInf THEN NegInf
  ELSE IF a = PosInf THEN b
  ELSE IF b = PosInf THEN a
  ELSE IF Leq(a, b) THEN a ELSE b

RECURSIVE Pow(_, _)
Pow(b, k) ==
  IF k = 0 THEN One
  ELSE IF k % 2 = 0 THEN LET h == Pow(b, k \div 2) IN Mul(h, h)
  ELSE Mul(b, Pow(b, k - 1))

\* floor of a finite x >= 0
Floor(x) ==
  IF x[3] >= 0 THEN (x[1] * (2 ^ x[3])) \div x[2]
  ELSE IF -x[3] > 30 THEN 0
  ELSE (x[1] \div (2 ^ (-x[3]))) \div x[2]

RECURSIVE IsqrtFrom(_, _)
IsqrtFrom(v, r) == IF (r + 1) * (r + 1) > v THEN r ELSE IsqrtFrom(v, r + 1)

\* jnp.sqrt, rounded down to a multiple of 1/SqrtScale; NaN below zero
Sqrt(x) ==
  IF ~Finite(x) \/ x[1] < 0 THEN NaN
  ELSE Mk(IsqrtFrom(Floor(Mul(x, Int2Num(SqrtScale * SqrtScale))), 0), SqrtScale, 0)


\* -------------------------------------------------------------- containers
\* A parameter container is modelled by its leaves in order: a sequence.
RECURSIVE VdotFrom(_, _, _)
VdotFrom(a, b, i) ==
  IF i > Len(a) THEN Zero ELSE Add(Mul(a[i], b[i]), VdotFrom(a, b, i + 1))

\* tree_utils.tree_vdot
tree_vdot(a, b) == VdotFrom(a, b, 1)

\* the container f with every leaf evaluated
Seq1(f) == IF f = <<>> THEN <<>> ELSE f

\* jnp.zeros(p.shape) mapped over the container
zeros_like(params) == [i \in 1..Len(params) |-> Zero]

\* ------------------------------------------------------------ configuration
\* learning_rate is a scalar, or a schedule count -> init * decay^count
Const(v) == [callable |-> FALSE, init |-> v, decay |-> One]
Schedule(v, r) == [callable |-> TRUE, init |-> v, decay |-> r]

\* the documented defaults: momo_adam()
DocConfig ==
  [learning_rate |-> Const(One), beta1 |-> Rat(9, 10), beta2 |-> Rat(999, 1000),
   eps |-> Rat(1, 100000000), lb |-> Zero, weight_decay |-> Zero]

Configs ==
  { DocConfig,
    [learning_rate |-> Const(One), beta1 |-> Rat(1, 2), beta2 |-> Rat(1, 2),
     eps |-> One, lb |-> Zero, weight_decay |-> Zero],
    [learning_rate |-> Const(Int2Num(2)), beta1 |-> Rat(1, 2), beta2 |-> Zero,
     eps |-> Rat(1, 2), lb |-> One, weight_decay |-> Rat(1, 2)],
    [learning_rate |-> Schedule(One, Rat(1, 2)), beta1 |-> Rat(1, 2), beta2 |-> Zero,
     eps |-> Rat(1, 2), lb |-> Zero, weight_decay |-> Zero],
    [learning_rate |-> Schedule(One, Zero), beta1 |-> Zero, beta2 |-> Rat(1, 2),
     eps |-> One, lb |-> Zero, weight_decay |-> One] }

\* jnp.finfo(float).eps: float is Python's float, a double, whose machine
\* epsilon is 2^-52
MachEps == Mk(1, 1, -52)

\* Python's None, a value unlike every container and every number
None == <<>>

\* ------------------------------------------------------------------- state
VARIABLES
  cfg,    \* the arguments momo_adam was constructed with
  pc,     \* "constructed" until init_fn has been called, then "initialized"
  state,  \* the MomoAdamState the training loop holds (NoState before init)
  call,   \* the arguments of the last init / update call
  out,    \* what that call returned or raised, with update_fn's locals
  lb_since  \* -1 while training; else the count from which on every call has
            \* zero gradient, loss = lb and the same params

vars == <<cfg, pc, state, call, out, lb_since>>

MomoAdamState(exp_avg, exp_avg_sq, barf, gamma, count) ==
  [exp_avg |-> exp_avg, exp_avg_sq |-> exp_avg_sq, barf |-> barf, gamma |-> gamma,
   count |-> count]

\* what the training loop holds before it has called init_fn
NoState == MomoAdamState(<<>>, <<>>, Zero, Zero, 0)

\* mutant: the step counter starts at 1
init_fn_count1(params) ==
  MomoAdamState(zeros_like(params), zeros_like(params), Zero, Zero, 1)

\* ------------------------------------------------------------------ init_fn
init_fn(params) ==
  MomoAdamState(zeros_like(params), zeros_like(params), Zero, Zero, 0)

\* ---------------------------------------------------------------- update_fn
\* utils.safe_int32_increment
safe_int32_increment(count) == count + 1

NewBarf(st, loss) ==
  Add(Mul(cfg.beta1, st.barf), Mul(Sub(One, cfg.beta1), loss))

NewExpAvg(st, updates) ==
  [i \in 1..Len(updates) |->
     Add(Mul(cfg.beta1, st.exp_avg[i]), Mul(Sub(One, cfg.beta1), updates[i]))]

\* mutant: the gradient is not squared
NewExpAvgSqNoSquare(st, updates) ==
  [i \in 1..Len(updates) |->
     Add(Mul(cfg.beta2, st.exp_avg_sq[i]), Mul(Sub(One, cfg.beta2), updates[i]))]

NewExpAvgSq(st, updates) ==
  [i \in 1..Len(updates) |->
     Add(Mul(cfg.beta2, st.exp_avg_sq[i]),
         Mul(Mul(Sub(One, cfg.beta2), updates[i]), updates[i]))]

Bc2(count) == Sub(One, Pow(cfg.beta2, count + 1))

\* mutant: eps is left out of the preconditioner
PrecondNoEps(exp_avg_sq, bc2) ==
  [i \in 1..Len(exp_avg_sq) |-> Sqrt(Div(exp_avg_sq[i], bc2))]

Precond(exp_avg_sq, bc2) ==
  [i \in 1..Len(exp_avg_sq) |-> Add(cfg.eps, Sqrt(Div(exp_avg_sq[i], bc2)))]

ExpAvgWeighted(exp_avg, precond) ==
  [i \in 1..Len(exp_avg) |-> Div(exp_avg[i], precond[i])]

\* mutant: gamma averages <exp_avg, params> instead of <updates, params>
NewGammaOfExpAvg(st, updates, params) ==
  Add(Mul(cfg.beta1, st.gamma), Mul(Sub(One, cfg.beta1), tree_vdot(st.exp_avg, params)))

NewGamma(st, updates, params) ==
  Add(Mul(cfg.beta1, st.gamma), Mul(Sub(One, cfg.beta1), tree_vdot(updates, params)))

Alpha(count) ==
  IF cfg.learning_rate.callable
  THEN Mul(cfg.learning_rate.init, Pow(cfg.learning_rate.decay, count))
  ELSE cfg.learning_rate.init

Bc1(count) == Sub(One, Pow(cfg.beta1, count + 1))

\* 1 + alpha*weight_decay
WdScale(alpha) == Add(One, Mul(alpha, cfg.weight_decay))

\* line 122: evaluated in every call, whatever exp_avg_norm is
T1Raw(alpha, barf, bc1, gamma, iprod, exp_avg_norm) ==
  Div(Maximum(Add(Mul(WdScale(alpha), Sub(Sub(barf, Mul(bc1, cfg.lb)), gamma)), iprod),
              Zero),
      exp_avg_norm)

\* mutant: the guard only catches an exp_avg_norm of exactly zero
T1ZeroOnly(exp_avg_norm, t1raw) == IF IsZero(exp_avg_norm) THEN Zero ELSE t1raw

\* mutant: no guard
T1Unguarded(exp_avg_norm, t1raw) == t1raw

\* cond(exp_avg_norm <= eps, lambda: 0., lambda: t1)
T1(exp_avg_norm, t1raw) == IF Leq(exp_avg_norm, MachEps) THEN Zero ELSE t1raw

\* mutant: no cap on the adaptive term
TauUncapped(alpha, bc1, t1) == t1

\* mutant: the cap is the learning rate without its bias correction
TauPlainRate(alpha, bc1, t1) == Minimum(alpha, t1)

Tau(alpha, bc1, t1) == Minimum(Div(alpha, bc1), t1)

PUpdate(alpha, tau, exp_avg, precond, params) ==
  [i \in 1..Len(params) |->
     Sub(Mul(Div(Neg(Mul(alpha, cfg.weight_decay)), WdScale(alpha)), params[i]),
         Div(Mul(tau, exp_avg[i]), precond[i]))]

\* mutant: the count is passed on as it came
NewStateKeepCount(exp_avg, exp_avg_sq, barf, gamma, count) ==
  MomoAdamState(exp_avg, exp_avg_sq, barf, gamma, count)

NewState(exp_avg, exp_avg_sq, barf, gamma, count) ==
  MomoAdamState(exp_avg, exp_avg_sq, barf, gamma, safe_int32_increment(count))

\* update_fn is written as a chain of operators, one per group of lines, each
\* handing the locals computed so far to the next, so that every local is
\* evaluated once.

\* lines 131-146: the update, the new state, and the locals
FromLine131(params, count, barf, exp_avg, exp_avg_sq, gamma, bc2, precond, exp_avg_norm, alpha, bc1, t1raw, t1, tau) ==
  [err |-> "none",
   p_update |-> PUpdate(alpha, tau, exp_avg, precond, params),
   new_state |-> NewState(exp_avg, exp_avg_sq, barf, gamma, count),
   bc1 |-> bc1, bc2 |-> bc2, precond |-> precond, exp_avg_norm |-> exp_avg_norm,
   alpha |-> alpha, wd_scale |-> WdScale(alpha), t1raw |-> t1raw, t1 |-> t1, tau |-> tau]

\* line 130
FromLine130(params, count, barf, exp_avg, exp_avg_sq, gamma, bc2, precond, exp_avg_norm, alpha, bc1, t1raw, t1) ==
  FromLine131(params, count, barf, exp_avg, exp_avg_sq, gamma, bc2, precond,
              exp_avg_norm, alpha, bc1, t1raw, t1, Tau(alpha, bc1, t1))

\* lines 125-129
FromLine125(params, count, barf, exp_avg, exp_avg_sq, gamma, bc2, precond, exp_avg_norm, alpha, bc1, t1raw) ==
  FromLine130(params, count, barf, exp_avg, exp_avg_sq, gamma, bc2, precond,
              exp_avg_norm, alpha, bc1, t1raw, T1(exp_avg_norm, t1raw))

\* lines 119-124
FromLine119(params, count, barf, exp_avg, exp_avg_sq, gamma, bc2, precond, exp_avg_norm, alpha, bc1) ==
  FromLine125(params, count, barf, exp_avg, exp_avg_sq, gamma, bc2, precond,
              exp_avg_norm, alpha, bc1,
              T1Raw(alpha, barf, bc1, gamma, tree_vdot(exp_avg, params), exp_avg_norm))

\* lines 112-121
FromLine112(params, count, barf, exp_avg, exp_avg_sq, gamma, bc2, precond) ==
  FromLine119(params, count, barf, exp_avg, exp_avg_sq, gamma, bc2, precond,
              tree_vdot(exp_avg, Seq1(ExpAvgWeighted(exp_avg, precond))),
              Alpha(count), Bc1(count))

\* lines 107-111
FromLine107(params, count, barf, exp_avg, exp_avg_sq, gamma, bc2) ==
  FromLine112(params, count, barf, exp_avg, exp_avg_sq, gamma, bc2,
              Seq1(Precond(exp_avg_sq, bc2)))

\* mutant: a missing loss is taken to be 0
update_fn_loss_default(updates, st, params, loss) ==
  IF params = None THEN [err |-> "ValueError", msg |-> "NO_PARAMS_MSG"]
  ELSE FromLine107(params, st.count, NewBarf(st, IF loss = None THEN Zero ELSE loss),
                   Seq1(NewExpAvg(st, updates)), Seq1(NewExpAvgSq(st, updates)),
                   NewGamma(st, updates, params), Bc2(st.count))

\* update_fn: the record of what the call raised or returned, and its locals
update_fn(updates, st, params, loss) ==
  IF params = None THEN [err |-> "ValueError", msg |-> "NO_PARAMS_MSG"]
  ELSE IF loss = None THEN [err |-> "ValueError", msg |-> "pass the latest loss"]
  ELSE FromLine107(params, st.count, NewBarf(st, loss), Seq1(NewExpAvg(st, updates)),
                   Seq1(NewExpAvgSq(st, updates)), NewGamma(st, updates, params),
                   Bc2(st.count))

\* ------------------------------------------------------ the training loop
\* The training loop's objective has loss 2 where every parameter is 1 and
\* loss 0 where every parameter is -2; its (stochastic) gradient is zero or has
\* one component, 1/2 or -1.
GradVals == {Rat(1, 2), Int2Num(-1)}
ParamVals == {One, Int2Num(-2)}
LossAt(params) == IF params[1] = One THEN Int2Num(2) ELSE Zero

Dims == 1..MaxDim
Grads(d) ==
  {[i \in 1..d |-> Zero]} \cup
  {[i \in 1..d |-> IF i = k THEN g ELSE Zero] : k \in 1..d, g \in GradVals}
Params(d) == {[i \in 1..d |-> p] : p \in ParamVals}

\* the <<params, loss>> of a call that leaves out one of them, or both
MissingArgs(d) ==
  {<<None, Int2Num(2)>>, <<None, None>>, <<[i \in 1..d |-> One], None>>}

Dim == Len(state.exp_avg)

\* updates the training loop makes with arbitrary inputs; the decimal betas of
\* DocConfig are followed for the first update only
Horizon == IF cfg = DocConfig THEN 1 ELSE MaxCount

Init ==
  /\ cfg \in Configs
  /\ pc = "constructed"
  /\ state = NoState
  /\ call = [op |-> "construct"]
  /\ out = [err |-> "none"]
  /\ lb_since = -1

InitCall ==
  /\ pc = "constructed"
  /\ pc' = "initialized"
  /\ \E d \in Dims : \E params \in Params(d) :
       /\ state' = init_fn(params)
       /\ call' = [op |-> "init", params |-> params]
       /\ out' = [err |-> "none"]
  /\ UNCHANGED <<cfg, lb_since>>

\* one call update_fn(updates, state, params, loss) by the training loop, which
\* keeps the returned state, or the old one when the call raised
Step(updates, params, loss) ==
  LET r == update_fn(updates, state, params, loss)
  IN /\ call' = [op |-> "update", updates |-> updates, params |-> params, loss |-> loss]
     /\ out' = r
     /\ state' = IF r.err = "none" THEN r.new_state ELSE state
     /\ UNCHANGED <<cfg, pc>>

Update ==
  /\ pc = "initialized"
  /\ lb_since = -1
  /\ state.count < Horizon
  /\ \E updates \in Grads(Dim) : \E params \in Params(Dim) :
       Step(updates, params, LossAt(params))
  /\ UNCHANGED lb_since

\* a call that leaves out params, loss or both
UpdateMissing ==
  /\ pc = "initialized"
  /\ lb_since = -1
  /\ state.count < Horizon
  /\ \E args \in MissingArgs(Dim) : Step([i \in 1..Dim |-> One], args[1], args[2])
  /\ UNCHANGED lb_since

\* the loss has reached lb: from now on zero gradients and loss = lb
StartAtLb ==
  /\ pc = "initialized"
  /\ lb_since = -1
  /\ cfg # DocConfig
  /\ state.count <= LbStart
  /\ \E params \in Params(Dim) : Step(zeros_like(params), params, cfg.lb)
  /\ lb_since' = state.count

ContinueAtLb ==
  /\ lb_since >= 0
  /\ state.count < LbStart + LbSteps
  /\ Step(zeros_like(call.params), call.params, cfg.lb)
  /\ UNCHANGED lb_since

Next == InitCall \/ Update \/ UpdateMissing \/ StartAtLb \/ ContinueAtLb

Spec == Init /\ [][Next]_vars


\* ---------------------------------------------------------------- properties
\* the last call was an update_fn call that returned / that raised
Returned == call.op = "update" /\ out.err = "none"
Raised == call.op = "update" /\ out.err # "none"

\* the count of the state that was passed to the last returned call
PrevCount == state.count - 1

\* the spec's ConfigurationError is the code's ValueError
ConfigurationError == "ValueError"

\* the weight-decay-only term of the update for parameter entry p
WdTerm(alpha, p) ==
  Mul(Div(Neg(Mul(alpha, cfg.weight_decay)), Add(One, Mul(alpha, cfg.weight_decay))), p)

\* the divisors of the divisions a returned call evaluated: bc2 (line 109),
\* the preconditioner (lines 113, 134), exp_avg_norm (line 124), bc1 (line 130)
\* and 1 + alpha*weight_decay (line 133)
Divisors(r) ==
  {r.bc2, r.exp_avg_norm, r.bc1, r.wd_scale} \cup {r.precond[i] : i \in 1..Len(r.precond)}

C2_MissingArgsRaise ==
  [][(pc = "initialized" /\ call'.op = "update"
        /\ (call'.params = None \/ call'.loss = None))
      => (/\ out'.err = ConfigurationError
          /\ DOMAIN out' = {"err", "msg"}
          /\ state' = state)]_vars

C2_Witness ==
  /\ Raised
  /\ call.params # None
  /\ call.loss = None
  /\ state.count = 1
  /\ state.barf # Zero

\* C3: in every returned update call tau <= alpha / bc1, with alpha the
\* learning rate resolved at the count passed in and bc1 = 1 - beta1^(count+1).
C3_TauUpperBound ==
  Returned => Leq(out.tau, Div(Alpha(PrevCount), Sub(One, Pow(cfg.beta1, PrevCount + 1))))

C3_Witness ==
  /\ Returned
  /\ cfg.learning_rate.callable
  /\ Lt(Div(out.alpha, out.bc1), out.t1)
  /\ out.tau = Div(out.alpha, out.bc1)

\* C4 as claimed: when exp_avg_norm <= the float32 epsilon 2^-23, every entry of
\* the returned update is exactly the weight-decay-only term.
Float32Eps == Mk(1, 1, -23)
C4_Float32Threshold ==
  (Returned /\ Leq(out.exp_avg_norm, Float32Eps))
    => \A i \in 1..Len(call.params) :
         out.p_update[i] = WdTerm(Alpha(PrevCount), call.params[i])

\* C4 as amended: when exp_avg_norm <= the machine epsilon of Python's float
\* (2^-52, the threshold the guard compares with), every entry of the returned
\* update is exactly the weight-decay-only term -(alpha*wd)/(1+alpha*wd)*p.
C4_DegenerateUpdate ==
  (Returned /\ Leq(out.exp_avg_norm, MachEps))
    => \A i \in 1..Len(call.params) :
         out.p_update[i] = WdTerm(Alpha(PrevCount), call.params[i])

C4_Witness ==
  /\ Returned
  /\ IsPos(out.exp_avg_norm)
  /\ Leq(out.exp_avg_norm, MachEps)
  /\ cfg.weight_decay # Zero
  /\ IsPos(Alpha(PrevCount))
  /\ \E i \in 1..Len(call.params) : ~IsZero(out.p_update[i])

\* C5 as claimed: a returned update call evaluates no division whose divisor is
\* zero.
C5_NoZeroDivisor ==
  Returned => \A v \in Divisors(out) : ~IsZero(v)

\* C5 as amended: the only divisor that can be zero is exp_avg_norm; when it
\* is, the quotient is non-finite, the guard discards it (t1 = 0), and the
\* returned update and state are finite.  bc1, bc2, the preconditioner entries
\* and 1 + alpha*weight_decay are never zero.
C5_ZeroDivisorDiscarded ==
  Returned =>
    /\ \A v \in Divisors(out) \ {out.exp_avg_norm} : Finite(v) /\ ~IsZero(v)
    /\ IsZero(out.exp_avg_norm) => (~Finite(out.t1raw) /\ out.t1 = Zero)
    /\ Finite(out.tau)
    /\ \A i \in 1..Len(out.p_update) : Finite(out.p_update[i])
    /\ \A i \in 1..Len(state.exp_avg) : Finite(state.exp_avg[i]) /\ Finite(state.exp_avg_sq[i])
    /\ Finite(state.barf) /\ Finite(state.gamma)

C5_Witness ==
  /\ Returned
  /\ IsZero(out.exp_avg_norm)
  /\ out.t1raw = PosInf
  /\ out.t1 = Zero

C7_InitZero ==
  call.op = "init" =>
    /\ state.count = 0
    /\ state.barf = Zero
    /\ state.gamma = Zero
    /\ DOMAIN state.exp_avg = DOMAIN call.params
    /\ DOMAIN state.exp_avg_sq = DOMAIN call.params
    /\ \A i \in DOMAIN call.params : state.exp_avg[i] = Zero /\ state.exp_avg_sq[i] = Zero

C7_Witness == call.op = "init" /\ Len(call.params) = 2 /\ Len(state.exp_avg_sq) = 2

\* C8: every entry of exp_avg_sq is non-negative, and count is never negative
\* and never decreases.
C8_NonNegative ==
  /\ [](pc = "initialized" =>
          /\ state.count >= 0
          /\ \A i \in 1..Len(state.exp_avg_sq) :
               Finite(state.exp_avg_sq[i]) /\ ~IsNeg(state.exp_avg_sq[i]))
  /\ [][state'.count >= state.count]_vars

C8_Witness ==
  /\ Returned
  /\ state.count = 2
  /\ \E i \in 1..Len(call.updates) : IsNeg(call.updates[i]) /\ IsPos(state.exp_avg_sq[i])

\* C9: with weight_decay = 0, lb = 0 and a positive learning rate, once every
\* call has zero gradient and loss = lb, tau comes within the tolerance of 0 (by
\* the LbSteps-th such call) and, once there, stays there; when such calls start
\* at the init state, tau is 0 in each of them.
Tolerance == Mk(1, 1, -20)
AtLb ==
  /\ lb_since >= 0
  /\ cfg.weight_decay = Zero
  /\ cfg.lb = Zero
  /\ IsPos(out.alpha)

\* the number of calls made at the lower bound so far
LbCalls == state.count - lb_since

C9_TauVanishesAtLb ==
  /\ [](AtLb /\ lb_since = 0 => out.tau = Zero)
  /\ [](AtLb /\ LbCalls >= LbSteps => ~IsNeg(out.tau) /\ Leq(out.tau, Tolerance))
  /\ [][(AtLb /\ Leq(out.tau, Tolerance)) => Leq(out'.tau, Tolerance)]_vars

C9_Witness ==
  /\ AtLb
  /\ lb_since > 0
  /\ LbCalls >= LbSteps
  /\ \E i \in 1..Len(state.exp_avg) : ~IsZero(state.exp_avg[i])
  /\ IsPos(out.exp_avg_norm)
  /\ IsPos(out.t1raw)
  /\ out.tau = Zero

\* C10: the new state is the moving-average recurrences of the previous state
\* and the call's gradient, loss and params; the first update of the documented
\* configuration from init with p = 1, gradient 0.5, loss 2 gives barf = 0.2,
\* gamma = 0.05, exp_avg = 0.05, exp_avg_sq = 0.00025 and count = 1.
DocFixture ==
  /\ cfg = DocConfig
  /\ Returned
  /\ PrevCount = 0
  /\ call.updates = <<Rat(1, 2)>>
  /\ call.params = <<One>>
  /\ call.loss = Int2Num(2)

C10_Recurrences ==
  /\ [][(pc = "initialized" /\ out'.err = "none") =>
          LET b1 == cfg.beta1
              b2 == cfg.beta2
              g == call'.updates
          IN /\ state'.barf = Add(Mul(b1, state.barf), Mul(Sub(One, b1), call'.loss))
             /\ state'.gamma =
                  Add(Mul(b1, state.gamma), Mul(Sub(One, b1), tree_vdot(g, call'.params)))
             /\ DOMAIN state'.exp_avg = DOMAIN g
             /\ DOMAIN state'.exp_avg_sq = DOMAIN g
             /\ \A i \in DOMAIN g :
                  /\ state'.exp_avg[i] =
                       Add(Mul(b1, state.exp_avg[i]), Mul(Sub(One, b1), g[i]))
                  /\ state'.exp_avg_sq[i] =
                       Add(Mul(b2, state.exp_avg_sq[i]), Mul(Sub(One, b2), Mul(g[i], g[i])))]_vars
  /\ [](DocFixture =>
          /\ state.barf = Rat(2, 10)
          /\ state.gamma = Rat(5, 100)
          /\ state.exp_avg = <<Rat(5, 100)>>
          /\ state.exp_avg_sq = <<Rat(25, 100000)>>
          /\ state.count = 1)

C10_Witness == DocFixture /\ state.barf = Rat(1, 5)

====
